---- MODULE Spec2Model ----
(***************************************************************************)
(* The delivery service of the observability course: the lifespan of the   *)
(* FastAPI application (services/delivery-service/main.py), the RabbitMQ   *)
(* consumer task it starts (services/delivery-service/consumer.py) and the *)
(* broker the consumer talks to.                                           *)
(*                                                                         *)
(* The consumer is one asyncio task.  Every action of the consumer is the  *)
(* code between two suspension points (await) of that task; an action of   *)
(* the broker or of the producer is a step of another process.             *)
(***************************************************************************)
EXTENDS Integers, Sequences, FiniteSets, TLC

\* ------------------------------------------------------------------ bounds
\* Messages the producer publishes during one run of the service.
NumMsgs == 6

\* The largest --count the simulator is run with.
MaxCount == 4

\* Orders of a run with --count 0 that are followed.
MaxSent == 5

\* ------------------------------------------------------- program constants
Retries == 15
Delay == 3
PrefetchCount == 5
MinMinutes == 10
MaxMinutes == 40

Msgs == 1..NumMsgs
\* str(uuid.uuid4())[:8]: eight hexadecimal digits.  Two of the 16^8 values
\* stand for the space the ids are drawn from.
Ids == {"1a2b3c4d", "9f8e7d6c"}

\* The bodies a message can carry: a JSON object with both fields, a JSON
\* object without order_id and restaurant, JSON that is no object (a list, a
\* number, null) and bytes that are no JSON.
Bodies == {"object_full", "object_missing", "non_object", "not_json"}

\* What message.headers holds under traceparent: nothing (no headers, or no
\* such key), a well-formed value as str or as bytes, a str that is no
\* traceparent, or bytes that are no UTF-8.
HeaderKinds == {"absent", "str_valid", "bytes_valid", "str_garbled",
                "bytes_undecodable"}

\* The roster random.choice draws the driver from.
DRIVERS == {"Alice", "Bob", "Carlos", "Diana", "Eve"}

\* The outcomes of the POST /notify call.
NotifyOutcomes == {"ok", "timeout", "connect_error", "http_500"}

\* simulate.py --count: the default 0, a negative number or N >= 1.
Counts == (0 - 1)..MaxCount

\* How urlopen ends in post_order: the order service answers 201 with the
\* Order, answers with an error status (HTTPError), or is not reached or
\* sends no JSON (URLError, timeout, JSONDecodeError).
PostOutcomes == {"created", "http_error", "exception"}

VARIABLES
    lpc,             \* lifespan: created, serving, await_task, flush, stopped, crashed
    cpc,             \* consumer task: where start_consumer is suspended
    cancelRequested, \* consumer_task.cancel() was called on the running task
    taskExc,         \* the exception the consumer task ended with ("none": none)
    excRetrieved,    \* somebody awaited the task and saw taskExc
    flushed,         \* tracer_provider and meter_provider were shut down
    attempt,         \* the for loop's attempt
    failures,        \* connection attempts the broker refused
    sleeps,          \* completed asyncio.sleep(delay) calls
    elapsed,         \* seconds slept in the retry loop
    connection,      \* "none" or "open"
    channelOpen,
    prefetch,        \* the channel's prefetch_count, 0: no limit
    queueDeclared,
    consuming,       \* the queue iterator's consumer is registered
    published,       \* messages published so far
    body,            \* body[m]: the body of message m ("none": never read)
    queue,           \* the broker's queue: messages ready for delivery
    buffer,          \* delivered to the iterator, not yet handed to the loop
    cur,             \* the message of the loop's current or last iteration (0: none)
    curId,           \* delivery_id of the current or last process_delivery call
    mstate,          \* mstate[m]: unpublished, queued, delivered, handling, Acked, Nacked
    outcome,         \* outcome[m]: how _handle_message ended: none, returned, raised
    handled,         \* handled[m]: times m was handed to _handle_message
    delivered,       \* delivered[m]: times the broker delivered m
    dispositions,    \* dispositions[m]: acks and rejects issued for m by message.process()
    deliveries,      \* the store: deliveries[id] is a record, or NoDelivery
    storeWrites,     \* process_delivery calls that reached the store step
    lastNotify,      \* outcome of the POST of the last finished call ("none": none)
    headers,         \* the headers of the message _handle_message has in hand,
                     \* kept while it is handled and when they are what made
                     \* the handling fail ("none" otherwise)
    spanTrace,       \* trace id of the open consumer span: none, remote, fresh
    events,          \* what the handling of message cur did so far, in order
    assigned,        \* assigned[id]: driver, status and estimated_minutes of
                     \* the Delivery stored under id (followed by SpecAssign
                     \* only; Spec follows whose Delivery it is)
    spc,             \* simulator: args, post, check, sleep, done, stopped
    count,           \* args.count
    sent,            \* main's sent
    posts,           \* calls of post_order
    naps,            \* completed time.sleep(args.rate) calls
    failed           \* calls of post_order that returned None

vars == <<lpc, cpc, cancelRequested, taskExc, excRetrieved, flushed, attempt,
          failures, sleeps, elapsed, connection, channelOpen, prefetch,
          queueDeclared, consuming, published, body, queue, buffer, cur, curId,
          mstate, outcome, handled, delivered, dispositions, deliveries,
          storeWrites, lastNotify, headers, spanTrace, events, assigned, spc,
          count, sent, posts, naps, failed>>

lifeVars == <<lpc, excRetrieved, flushed>>
connVars == <<attempt, failures, sleeps, elapsed, connection>>
chanVars == <<channelOpen, prefetch, queueDeclared>>
brokerVars == <<published, body, queue, buffer, mstate, delivered>>
loopVars == <<cur, curId, outcome, handled, dispositions, lastNotify,
              headers, spanTrace, events>>
storeVars == <<deliveries, storeWrites, assigned>>
simVars == <<spc, count, sent, posts, naps, failed>>

NoAssigned == [driver |-> "none", status |-> "none", estimated_minutes |-> 0]

NoDelivery == [id |-> "none", msg |-> 0, order_id |-> "none", status |-> "none"]

Init ==
    /\ lpc = "created"
    /\ cpc = "not_started"
    /\ cancelRequested = FALSE
    /\ taskExc = "none"
    /\ excRetrieved = FALSE
    /\ flushed = FALSE
    /\ attempt = 0
    /\ failures = 0
    /\ sleeps = 0
    /\ elapsed = 0
    /\ connection = "none"
    /\ channelOpen = FALSE
    /\ prefetch = 0
    /\ queueDeclared = FALSE
    /\ consuming = FALSE
    /\ published = 0
    /\ body = [m \in Msgs |-> "none"]
    /\ queue = <<>>
    /\ buffer = <<>>
    /\ cur = 0
    /\ curId = "none"
    /\ mstate = [m \in Msgs |-> "unpublished"]
    /\ outcome = [m \in Msgs |-> "none"]
    /\ handled = [m \in Msgs |-> 0]
    /\ delivered = [m \in Msgs |-> 0]
    /\ dispositions = [m \in Msgs |-> 0]
    /\ deliveries = [i \in Ids |-> NoDelivery]
    /\ storeWrites = 0
    /\ lastNotify = "none"
    /\ headers = "none"
    /\ spanTrace = "none"
    /\ events = <<>>
    /\ assigned = [i \in Ids |-> NoAssigned]
    /\ spc = "args"
    /\ count = 0
    /\ sent = 0
    /\ posts = 0
    /\ naps = 0
    /\ failed = 0

\* ---------------------------------------------------------------- helpers

\* The consumer task has finished (returned or raised).
TaskDone == cpc \in {"failed", "cancelled"}

\* The event loop can run a callback: no coroutine is inside the blocking
\* time.sleep of process_delivery.
LoopFree == cpc # "pickup"

\* json.loads(message.body): raises on bytes that are no JSON.
JsonLoadsRaises(b) == b = "not_json"

\* data.get(...): data is whatever json.loads returned; only a dict has get.
DataGetRaises(b) == b = "non_object"

\* The keys of the parsed object.
Fields(b) == IF b = "object_full" THEN {"order_id", "restaurant"} ELSE {}

\* data.get(key, default)
DataGet(m, key, default) ==
    IF key \in Fields(body[m]) THEN key \o "-" \o ToString(m) ELSE default

\* The exception _handle_message raises before it calls process_delivery_fn
\* ("none": it gets to the call).
ParseError(b) ==
    IF JsonLoadsRaises(b) THEN "JSONDecodeError"
    ELSE IF DataGetRaises(b) THEN "AttributeError"
    ELSE "none"

\* v.decode() if isinstance(v, bytes) else str(v): bytes.decode is strict
\* UTF-8 and raises UnicodeDecodeError on anything else.
DecodeRaises(h) == h = "bytes_undecodable"

\* carrier["traceparent"] after the normalisation to str ("absent": no key).
Carrier(h) ==
    IF h \in {"str_valid", "bytes_valid"} THEN "valid"
    ELSE IF h = "str_garbled" THEN "garbled"
    ELSE "absent"

\* extract(carrier): the remote context of a well-formed traceparent, the
\* empty context otherwise.
Extract(c) == IF c = "valid" THEN "remote" ELSE "empty"

\* The trace id of a span started in context ctx: the context's, or a new one.
TraceIdIn(ctx) == IF ctx = "remote" THEN "remote" ELSE "fresh"

\* The exception _handle_message raises before it calls process_delivery_fn,
\* headers first, then the body ("none": it gets to the call).
HandleError(h, b) ==
    IF DecodeRaises(h) THEN "UnicodeDecodeError" ELSE ParseError(b)

\* A span that is ended before the exception is looked at.
SpanExit_endFirst(e, recordsBase) ==
    <<"span_end">> \o
    (IF e # "CancelledError" \/ recordsBase
       THEN <<"record_exception", "set_status_error">> ELSE <<>>)

\* The exception is an Exception (CancelledError is a BaseException only).
IsException(e) == e # "CancelledError"

\* The end of the with tracer.start_as_current_span(...) block when exception
\* e leaves it: the exception is recorded and the status set to ERROR, then
\* the span ends.  Whether that is done for a BaseException depends on the
\* opentelemetry-api release (recordsBase).
SpanExit(e, recordsBase) ==
    (IF IsException(e) \/ recordsBase
       THEN <<"record_exception", "set_status_error">> ELSE <<>>)
    \o <<"span_end">>

\* except Exception as exc: logger.error(...); raise
ExceptClause(e) == IF IsException(e) THEN <<"log_error">> ELSE <<>>

\* message.process() acknowledging whatever happened inside it.
DispositionOnExit_alwaysAck(raised) == "Acked"

\* message.process().__aexit__: ack when the block ended normally, reject
\* (requeue=False, the default) when an exception left it.
DispositionOnExit(raised) == IF raised THEN "Nacked" ELSE "Acked"

\* Messages delivered to the consumer that have no ack or reject yet.
Unacked == {m \in Msgs : mstate[m] \in {"delivered", "handling"}}

\* basic.qos: the broker delivers while fewer than prefetch_count messages
\* are unacknowledged; 0 is no limit.
BrokerMayDeliver == prefetch = 0 \/ Cardinality(Unacked) < prefetch

InBuffer(x) == \E i \in 1..Len(buffer) : buffer[i] = x

\* The Delivery process_delivery builds for message m under id i (msg is the
\* message whose handling made the call; the dict itself has no such field).
NewDelivery(m, i) ==
    [id |-> i, msg |-> m, order_id |-> DataGet(m, "order_id", "unknown"),
     status |-> "in_transit"]

\* process_delivery without the try/except around the POST.
NotifyPropagates_uncaught(o) == o # "ok"

\* Whether a failed POST /notify leaves process_delivery as an exception:
\* the try/except Exception around the call absorbs every failure.
NotifyPropagates(o) == FALSE

\* message.process() is called without requeue=True: its reject does not
\* return the message to the queue, and the queue is declared without a
\* dead-letter exchange, so the broker drops the message.
RejectRequeues == FALSE

\* A queue iterator that forgets the messages it buffered when it closes.
ExitLoop_keepBuffer(m) ==
    /\ mstate' = [x \in Msgs |->
                    IF x = m THEN DispositionOnExit(TRUE) ELSE mstate[x]]
    /\ outcome' = [x \in Msgs |-> IF x = m THEN "raised" ELSE outcome[x]]
    /\ dispositions' = [x \in Msgs |->
                    IF x = m THEN dispositions[x] + 1 ELSE dispositions[x]]
    /\ queue' = queue
    /\ buffer' = <<>>
    /\ consuming' = FALSE

\* An exception leaves the consumer loop while message m (0: none) is inside
\* message.process(): the message is rejected, the exception goes on through
\* the queue iterator, which cancels its consumer and returns the messages
\* it buffered to the queue, and start_consumer ends.
ExitLoop(m) ==
    /\ mstate' = [x \in Msgs |->
                    IF x = m THEN DispositionOnExit(TRUE)
                    ELSE IF InBuffer(x) THEN "queued" ELSE mstate[x]]
    /\ outcome' = [x \in Msgs |-> IF x = m THEN "raised" ELSE outcome[x]]
    /\ dispositions' = [x \in Msgs |->
                    IF x = m THEN dispositions[x] + 1 ELSE dispositions[x]]
    /\ queue' = (IF m \in Msgs /\ RejectRequeues THEN <<m>> ELSE <<>>)
                   \o buffer \o queue
    /\ buffer' = <<>>
    /\ consuming' = FALSE

\* ---------------------------------------------------------------- lifespan

\* lifespan up to its yield: the consumer task is created.
LifespanStartup ==
    /\ lpc = "created"
    /\ lpc' = "serving"
    /\ cpc' = "connect"
    /\ attempt' = 1
    /\ UNCHANGED <<cancelRequested, taskExc, excRetrieved, flushed, failures,
                   sleeps, elapsed, connection, chanVars, consuming,
                   brokerVars, loopVars, storeVars>>
    /\ UNCHANGED simVars

\* lifespan after its yield: consumer_task.cancel(), then await consumer_task.
\* cancel() does nothing to a task that is done.
Shutdown ==
    /\ lpc = "serving"
    /\ LoopFree
    /\ lpc' = "await_task"
    /\ cancelRequested' = ~TaskDone
    /\ UNCHANGED <<cpc, taskExc, excRetrieved, flushed, connVars, chanVars,
                   consuming, brokerVars, loopVars, storeVars>>
    /\ UNCHANGED simVars

\* await consumer_task returns: CancelledError is passed over, any other
\* exception of the task leaves lifespan before the providers are shut down.
AwaitTask ==
    /\ lpc = "await_task"
    /\ TaskDone
    /\ IF cpc = "cancelled"
         THEN lpc' = "flush" /\ UNCHANGED excRetrieved
         ELSE lpc' = "crashed" /\ excRetrieved' = TRUE
    /\ UNCHANGED <<cpc, cancelRequested, taskExc, flushed, connVars, chanVars,
                   consuming, brokerVars, loopVars, storeVars>>
    /\ UNCHANGED simVars

\* tracer_provider.shutdown(); meter_provider.shutdown()
Flush ==
    /\ lpc = "flush"
    /\ lpc' = "stopped"
    /\ flushed' = TRUE
    /\ UNCHANGED <<cpc, cancelRequested, taskExc, excRetrieved, connVars,
                   chanVars, consuming, brokerVars, loopVars, storeVars>>
    /\ UNCHANGED simVars

\* GET /deliveries and GET /deliveries/{id}: a coroutine of the same event
\* loop reads the store and answers.
ListDeliveries ==
    /\ lpc = "serving"
    /\ LoopFree
    /\ UNCHANGED vars

\* ------------------------------------------------- start_consumer: connect

\* range(1, retries + 2): one attempt too many.
MoreAttempts_extra(a) == a < Retries + 1

\* range(1, retries + 1) has another attempt after attempt a.
MoreAttempts(a) == a < Retries

\* connect_robust succeeds: break.
ConnectAccepted ==
    /\ cpc = "connect"
    /\ ~cancelRequested
    /\ connection' = "open"
    /\ cpc' = "channel"
    /\ UNCHANGED <<lifeVars, cancelRequested, taskExc, attempt, failures,
                   sleeps, elapsed, chanVars, consuming, brokerVars, loopVars,
                   storeVars>>
    /\ UNCHANGED simVars

\* The except clause without its asyncio.sleep: the next attempt at once.
ConnectRefused_noSleep ==
    /\ cpc = "connect"
    /\ ~cancelRequested
    /\ failures' = failures + 1
    /\ IF MoreAttempts(attempt)
         THEN attempt' = attempt + 1 /\ cpc' = "connect" /\ UNCHANGED taskExc
         ELSE cpc' = "failed" /\ taskExc' = "RuntimeError" /\ UNCHANGED attempt
    /\ UNCHANGED <<lifeVars, cancelRequested, sleeps, elapsed, connection,
                   chanVars, consuming, brokerVars, loopVars, storeVars>>
    /\ UNCHANGED simVars

\* connect_robust raises: the warning is logged and the sleep begins.
ConnectRefused ==
    /\ cpc = "connect"
    /\ ~cancelRequested
    /\ failures' = failures + 1
    /\ cpc' = "sleep"
    /\ UNCHANGED <<lifeVars, cancelRequested, taskExc, attempt, sleeps,
                   elapsed, connection, chanVars, consuming, brokerVars,
                   loopVars, storeVars>>
    /\ UNCHANGED simVars

\* asyncio.sleep(delay) returns: the next attempt, or the loop is over with
\* connection still None and RuntimeError is raised.
SleepDone ==
    /\ cpc = "sleep"
    /\ ~cancelRequested
    /\ sleeps' = sleeps + 1
    /\ elapsed' = elapsed + Delay
    /\ IF MoreAttempts(attempt)
         THEN /\ attempt' = attempt + 1
              /\ cpc' = "connect"
              /\ UNCHANGED taskExc
         ELSE /\ cpc' = IF connection = "none" THEN "failed" ELSE "channel"
              /\ taskExc' = IF connection = "none" THEN "RuntimeError" ELSE "none"
              /\ UNCHANGED attempt
    /\ UNCHANGED <<lifeVars, cancelRequested, failures, connection, chanVars,
                   consuming, brokerVars, loopVars, storeVars>>
    /\ UNCHANGED simVars

\* -------------------------------------- start_consumer: channel and queue

\* connection.channel()
OpenChannel ==
    /\ cpc = "channel"
    /\ ~cancelRequested
    /\ channelOpen' = TRUE
    /\ cpc' = "set_qos"
    /\ UNCHANGED <<lifeVars, cancelRequested, taskExc, connVars, prefetch,
                   queueDeclared, consuming, brokerVars, loopVars, storeVars>>
    /\ UNCHANGED simVars

\* start_consumer without its set_qos call: the channel keeps no limit.
SetQos_skipped ==
    /\ cpc = "set_qos"
    /\ ~cancelRequested
    /\ cpc' = "declare"
    /\ UNCHANGED <<lifeVars, cancelRequested, taskExc, connVars, chanVars,
                   consuming, brokerVars, loopVars, storeVars>>
    /\ UNCHANGED simVars

\* channel.set_qos(prefetch_count=5)
SetQos ==
    /\ cpc = "set_qos"
    /\ ~cancelRequested
    /\ prefetch' = PrefetchCount
    /\ cpc' = "declare"
    /\ UNCHANGED <<lifeVars, cancelRequested, taskExc, connVars, channelOpen,
                   queueDeclared, consuming, brokerVars, loopVars, storeVars>>
    /\ UNCHANGED simVars

\* channel.declare_queue(QUEUE_NAME, durable=True)
DeclareQueue ==
    /\ cpc = "declare"
    /\ ~cancelRequested
    /\ queueDeclared' = TRUE
    /\ cpc' = "consume"
    /\ UNCHANGED <<lifeVars, cancelRequested, taskExc, connVars, channelOpen,
                   prefetch, consuming, brokerVars, loopVars, storeVars>>
    /\ UNCHANGED simVars

\* async with queue.iterator(): the iterator registers its consumer.
StartConsuming ==
    /\ cpc = "consume"
    /\ ~cancelRequested
    /\ consuming' = TRUE
    /\ cpc' = "iter"
    /\ UNCHANGED <<lifeVars, cancelRequested, taskExc, connVars, chanVars,
                   brokerVars, loopVars, storeVars>>
    /\ UNCHANGED simVars

\* ------------------------------------------------------ producer and broker

\* The kitchen service publishes the next message.  What the message holds is
\* the producer's choice; nothing reads it before _handle_message does, so
\* the model draws it there (ReceiveMessage).
Publish ==
    /\ published < NumMsgs
    /\ published' = published + 1
    /\ queue' = Append(queue, published + 1)
    /\ mstate' = [mstate EXCEPT ![published + 1] = "queued"]
    /\ UNCHANGED <<lifeVars, cpc, cancelRequested, taskExc, connVars, chanVars,
                   consuming, body, buffer, delivered, loopVars, storeVars>>
    /\ UNCHANGED simVars

\* The broker delivers the head of the queue to the iterator's consumer.
BrokerDeliver ==
    /\ consuming
    /\ queue # <<>>
    /\ BrokerMayDeliver
    /\ buffer' = Append(buffer, Head(queue))
    /\ queue' = Tail(queue)
    /\ mstate' = [mstate EXCEPT ![Head(queue)] = "delivered"]
    /\ delivered' = [delivered EXCEPT ![Head(queue)] = @ + 1]
    /\ UNCHANGED <<lifeVars, cpc, cancelRequested, taskExc, connVars, chanVars,
                   consuming, published, body, loopVars, storeVars>>
    /\ UNCHANGED simVars

\* ---------------------------------------------------- the consumer's loop

\* A loop that starts the handling of the next message while the last one
\* is still waiting for its POST.
LoopReady_concurrent == cpc \in {"iter", "notify"}

\* The loop body is awaited to its end before the iterator is asked for the
\* next message.
LoopReady == cpc = "iter"

\* The iterator yields the next message, message.process() is entered and
\* _handle_message runs to its first suspension: either it raises while it
\* reads the body, or it calls process_delivery, which draws its driver and
\* delivery id and enters time.sleep.
ReceiveMessage ==
    /\ LoopReady
    /\ ~cancelRequested
    /\ buffer # <<>>
    /\ \E b \in Bodies, h \in HeaderKinds :
       LET m == Head(buffer) IN
         /\ cur' = m
         /\ body' = [body EXCEPT ![m] = IF DecodeRaises(h) THEN "none" ELSE b]
         /\ headers' = IF DecodeRaises(h) \/ HandleError(h, b) = "none"
                          THEN h ELSE "none"
         /\ handled' = [handled EXCEPT ![m] = @ + 1]
         /\ lastNotify' = "none"
         /\ IF HandleError(h, b) # "none"
              THEN /\ ExitLoop(m)
                   /\ cpc' = "failed"
                   /\ taskExc' = HandleError(h, b)
                   /\ curId' = "none"
                   /\ spanTrace' = "none"
                   /\ events' = ExceptClause(HandleError(h, b)) \o <<"reject">>
              ELSE /\ cpc' = "pickup"
                   /\ \E i \in Ids : curId' = i
                   /\ buffer' = Tail(buffer)
                   /\ mstate' = [mstate EXCEPT ![m] = "handling"]
                   /\ spanTrace' = TraceIdIn(Extract(Carrier(h)))
                   /\ events' = <<"span_start">>
                   /\ UNCHANGED <<taskExc, outcome, dispositions, queue, consuming>>
    /\ UNCHANGED <<lifeVars, cancelRequested, connVars, chanVars, published,
                   delivered, storeVars>>
    /\ UNCHANGED simVars

\* time.sleep(pickup_delay) returns; the Delivery is built and stored, the
\* metrics are recorded and the POST /notify is sent.
PickupDone ==
    /\ cpc = "pickup"
    /\ deliveries' = [deliveries EXCEPT ![curId] = NewDelivery(cur, curId)]
    /\ storeWrites' = storeWrites + 1
    /\ cpc' = "notify"
    /\ UNCHANGED <<lifeVars, cancelRequested, taskExc, connVars, chanVars,
                   consuming, brokerVars, loopVars, assigned>>
    /\ UNCHANGED simVars

\* The POST /notify ends with outcome o; process_delivery returns the
\* Delivery, _handle_message returns and message.process() acknowledges.
NotifyDone ==
    /\ cpc = "notify"
    /\ ~cancelRequested
    /\ \E o \in NotifyOutcomes :
         /\ lastNotify' = o
         /\ IF NotifyPropagates(o)
              THEN /\ ExitLoop(cur)
                   /\ cpc' = "failed"
                   /\ taskExc' = o
                   /\ events' = events \o SpanExit(o, FALSE) \o ExceptClause(o)
                                   \o <<"reject">>
              ELSE /\ mstate' = [mstate EXCEPT ![cur] = DispositionOnExit(FALSE)]
                   /\ outcome' = [outcome EXCEPT ![cur] = "returned"]
                   /\ dispositions' = [dispositions EXCEPT ![cur] = @ + 1]
                   /\ cpc' = "iter"
                   /\ events' = events \o <<"span_end", "ack">>
                   /\ UNCHANGED <<taskExc, queue, buffer, consuming>>
    /\ spanTrace' = "none"
    /\ headers' = "none"
    /\ UNCHANGED <<lifeVars, cancelRequested, connVars, chanVars, published,
                   body, delivered, cur, curId, handled, storeVars>>
    /\ UNCHANGED simVars

\* CancelledError is thrown into the task where it is suspended.  No except
\* clause of start_consumer, _handle_message or process_delivery catches it
\* (each catches Exception), so the task ends cancelled; on its way out the
\* error leaves the consumer span, message.process() and the queue iterator
\* as any other.
ConsumerCancelled ==
    /\ cancelRequested
    /\ ~TaskDone
    /\ cpc' = "cancelled"
    /\ cancelRequested' = FALSE
    /\ IF cpc = "notify"
         THEN /\ ExitLoop(cur)
              /\ \E recordsBase \in BOOLEAN :
                   events' = events \o SpanExit("CancelledError", recordsBase)
                               \o ExceptClause("CancelledError") \o <<"reject">>
       ELSE IF cpc = "iter"
         THEN ExitLoop(0) /\ UNCHANGED events
       ELSE UNCHANGED <<mstate, outcome, dispositions, queue, buffer, consuming,
                        events>>
    /\ spanTrace' = "none"
    /\ headers' = "none"
    /\ UNCHANGED <<lifeVars, taskExc, connVars, chanVars, published, body,
                   delivered, cur, curId, handled, lastNotify, storeVars>>
    /\ UNCHANGED simVars

Next ==
    \/ LifespanStartup
    \/ Shutdown
    \/ AwaitTask
    \/ Flush
    \/ ConnectAccepted
    \/ ConnectRefused
    \/ SleepDone
    \/ OpenChannel
    \/ SetQos
    \/ DeclareQueue
    \/ StartConsuming
    \/ Publish
    \/ BrokerDeliver
    \/ ReceiveMessage
    \/ PickupDone
    \/ NotifyDone
    \/ ConsumerCancelled
    \/ ListDeliveries

Spec == Init /\ [][Next]_vars

\* ------------------------------------- process_delivery: the drawn fields

\* random.randint(a, b + 1): one minute too many.
RandInt_wide(a, b) == a..(b + 1)

\* random.randint(a, b): an integer N with a <= N <= b.
RandInt(a, b) == a..b

\* One process_delivery call, as far as the fields it draws go: the driver,
\* the id and the estimated minutes are drawn, the status is in_transit and
\* the Delivery is stored under its id.
AssignDelivery ==
    /\ \E drv \in DRIVERS, i \in Ids, mins \in RandInt(MinMinutes, MaxMinutes) :
         assigned' = [assigned EXCEPT ![i] =
                        [driver |-> drv, status |-> "in_transit",
                         estimated_minutes |-> mins]]
    /\ UNCHANGED <<lifeVars, cpc, cancelRequested, taskExc, connVars, chanVars,
                   consuming, brokerVars, loopVars, deliveries, storeWrites>>
    /\ UNCHANGED simVars

NextAssign == AssignDelivery

\* process_delivery called again and again, whoever the caller is.
SpecAssign == Init /\ [][NextAssign]_vars

\* --------------------------------------------------- simulate.py: main loop

\* post_order: the Order the service answered with, or None when urlopen or
\* json.loads raised (both except clauses return None).
post_order(o) == IF o = "created" THEN "order" ELSE "None"

\* A loop that stops one order late.
CountReached_after(c, s) == c # 0 /\ s > c

\* if args.count and sent >= args.count
CountReached(c, s) == c # 0 /\ s >= c

\* parse_args and sent = 0
SimStart ==
    /\ spc = "args"
    /\ \E n \in Counts : count' = n
    /\ sent' = 0
    /\ spc' = "post"
    /\ UNCHANGED <<posts, naps, failed>>
    /\ UNCHANGED <<lifeVars, cpc, cancelRequested, taskExc, connVars, chanVars,
                   consuming, brokerVars, loopVars, storeVars>>

\* create_order, post_order and sent += 1: whatever post_order returns.
SimPostOrder ==
    /\ spc = "post"
    /\ count = 0 => sent < MaxSent
    /\ \E o \in PostOutcomes :
         failed' = IF post_order(o) = "None" THEN failed + 1 ELSE failed
    /\ posts' = posts + 1
    /\ sent' = sent + 1
    /\ spc' = "check"
    /\ UNCHANGED <<count, naps>>
    /\ UNCHANGED <<lifeVars, cpc, cancelRequested, taskExc, connVars, chanVars,
                   consuming, brokerVars, loopVars, storeVars>>

\* The test of the count: break, or go on to the sleep.
SimCheckCount ==
    /\ spc = "check"
    /\ spc' = IF CountReached(count, sent) THEN "done" ELSE "sleep"
    /\ UNCHANGED <<count, sent, posts, naps, failed>>
    /\ UNCHANGED <<lifeVars, cpc, cancelRequested, taskExc, connVars, chanVars,
                   consuming, brokerVars, loopVars, storeVars>>

\* time.sleep(args.rate) returns.
SimSleep ==
    /\ spc = "sleep"
    /\ naps' = naps + 1
    /\ spc' = "post"
    /\ UNCHANGED <<count, sent, posts, failed>>
    /\ UNCHANGED <<lifeVars, cpc, cancelRequested, taskExc, connVars, chanVars,
                   consuming, brokerVars, loopVars, storeVars>>

\* KeyboardInterrupt inside the try block: sys.exit(0).
SimInterrupt ==
    /\ spc \in {"post", "check", "sleep"}
    /\ spc' = "stopped"
    /\ UNCHANGED <<count, sent, posts, naps, failed>>
    /\ UNCHANGED <<lifeVars, cpc, cancelRequested, taskExc, connVars, chanVars,
                   consuming, brokerVars, loopVars, storeVars>>

\* The statements of the while loop.
SimLoop == SimPostOrder \/ SimCheckCount \/ SimSleep

NextSim ==
    \/ SimStart
    \/ SimPostOrder
    \/ SimCheckCount
    \/ SimSleep
    \/ SimInterrupt

\* The simulator is a sequential program: while it is neither interrupted
\* nor done, its next statement is executed.
SpecSim == Init /\ [][NextSim]_vars /\ WF_vars(SimLoop)

\* ------------------------------------------------------------------ claims

Stored == {i \in Ids : deliveries[i] # NoDelivery}

\* The handling of message m was cut short by the cancellation of the task.
HandlingCancelled(m) == cpc = "cancelled" /\ m = cur /\ outcome[m] = "raised"

\* C1: a message whose body is no JSON is negatively acknowledged and the
\* consumer keeps running: the consumer task does not end because of it.
C1_ConsumerSurvivesBadBody ==
    \A m \in Msgs :
        (body[m] = "not_json" /\ mstate[m] = "Nacked") => cpc # "failed"

\* C2: a message handed to _handle_message gets one disposition and never
\* two: Acked exactly when _handle_message returned, Nacked exactly when it
\* raised; and it is handled no more often than the broker delivered it.
C2_OneDisposition ==
    \A m \in Msgs :
        /\ dispositions[m] <= 1
        /\ (mstate[m] = "Acked") <=> (outcome[m] = "returned")
        /\ (mstate[m] = "Nacked") <=> (outcome[m] = "raised")
        /\ (outcome[m] # "none") <=> (dispositions[m] = 1)
        /\ handled[m] <= delivered[m]

C2_Witness ==
    \E m, n \in Msgs :
        /\ mstate[m] = "Acked" /\ outcome[m] = "returned"
        /\ mstate[n] = "Nacked" /\ outcome[n] = "raised"

\* C3: when the broker refuses the first k < 15 attempts and accepts the
\* next, the connection is obtained on attempt k + 1 after exactly k sleeps
\* of 3 seconds, and start_consumer goes on to the channel, the prefetch and
\* the queue, in that order.
C3_ConnectsAfterKRefusals ==
    /\ connection = "open" =>
         /\ failures < Retries
         /\ attempt = failures + 1
         /\ sleeps = failures
         /\ elapsed = Delay * failures
         /\ taskExc # "RuntimeError"
         /\ cpc \notin {"connect", "sleep"}
    /\ (cpc = "channel" /\ ~cancelRequested) => ENABLED OpenChannel
    /\ (cpc = "set_qos" /\ ~cancelRequested) => ENABLED SetQos
    /\ (cpc = "declare" /\ ~cancelRequested) => ENABLED DeclareQueue
    /\ channelOpen => connection = "open"
    /\ cpc = "set_qos" => (channelOpen /\ prefetch = 0)
    /\ cpc = "declare" => (prefetch = PrefetchCount /\ ~queueDeclared)
    /\ queueDeclared => (channelOpen /\ prefetch = PrefetchCount)

C3_Witness ==
    /\ connection = "open"
    /\ failures = Retries - 1
    /\ sleeps = Retries - 1
    /\ queueDeclared

\* C4: after 15 refused attempts there is no 16th attempt, start_consumer
\* ends with RuntimeError (unless it is cancelled in its last sleep) and
\* never gets to the channel, the queue or a message; no connection is held.
C4_NoConnectionAfterBudget ==
    /\ attempt <= Retries
    /\ failures <= Retries
    /\ failures = Retries =>
         /\ connection = "none"
         /\ ~channelOpen /\ ~queueDeclared /\ ~consuming
         /\ cpc \in {"sleep", "failed", "cancelled"}
         /\ cpc = "failed" => taskExc = "RuntimeError"
         /\ \A m \in Msgs : handled[m] = 0 /\ delivered[m] = 0
    /\ taskExc = "RuntimeError" => (failures = Retries /\ sleeps = Retries)

C4_Witness ==
    /\ failures = Retries
    /\ cpc = "failed"
    /\ taskExc = "RuntimeError"

\* C5: the service is never in its serving state with the consumer task dead
\* of the exhausted retry budget and that error seen by nobody.
C5_ExhaustionNotSwallowed ==
    ~(lpc = "serving" /\ cpc = "failed" /\ taskExc = "RuntimeError"
        /\ ~excRetrieved)

\* C6: when the POST /notify of a message's process_delivery call failed
\* (timeout, connection error, HTTP 500), the Delivery is in the store, the
\* call returned without raising and the message is acknowledged.
C6_NotifyFailureStillAcked ==
    lastNotify \in {"timeout", "connect_error", "http_500"} =>
        /\ cur \in Msgs
        /\ outcome[cur] = "returned"
        /\ mstate[cur] = "Acked"
        /\ deliveries[curId] = NewDelivery(cur, curId)
        /\ taskExc = "none"

C6_Witness ==
    /\ lastNotify = "http_500"
    /\ cur \in Msgs
    /\ mstate[cur] = "Acked"
    /\ deliveries[curId].msg = cur

\* C7: at most prefetch (5) delivered messages are without ack or nack.
C7_PrefetchBound == Cardinality(Unacked) <= PrefetchCount

C7_Witness ==
    /\ Cardinality(Unacked) = PrefetchCount
    /\ queue # <<>>
    /\ cpc = "notify"

\* C8: a message whose body is valid JSON, handled to the end, has exactly
\* one Delivery in the store and is acknowledged.
C8_ValidJsonAcked ==
    \A m \in Msgs :
        ( /\ m = cur
          /\ body[m] \in {"object_full", "object_missing", "non_object"}
          /\ outcome[m] # "none"
          /\ ~HandlingCancelled(m) ) =>
            /\ mstate[m] = "Acked"
            /\ Cardinality({i \in Ids : deliveries[i].msg = m}) = 1

\* C9: every process_delivery call stores under an id no record has yet: the
\* store holds as many records as calls reached the store step.
C9_StoreAppendOnly == Cardinality(Stored) = storeWrites

\* C10: no Delivery is in the store for a message that ended Nacked, and no
\* message has two Deliveries.
C10_DeliveryOnlyForAcked ==
    /\ \A i \in Stored : mstate[deliveries[i].msg] # "Nacked"
    /\ \A i, j \in Stored : deliveries[i].msg = deliveries[j].msg => i = j

\* Where event e first stands in events (0: nowhere).
Pos(e) ==
    IF \E k \in 1..Len(events) : events[k] = e
      THEN CHOOSE k \in 1..Len(events) :
             events[k] = e /\ \A j \in 1..(k - 1) : events[j] # e
      ELSE 0

Has(e) == Pos(e) > 0

\* process_delivery_fn raised inside the consumer span of message cur.
RaisedInSpan == cur \in Msgs /\ Has("span_start") /\ outcome[cur] = "raised"

\* C11: a well-formed traceparent, str or bytes, gives a consumer span with
\* the trace id of the header; no traceparent or a garbled value gives a span
\* with a fresh trace id, raises nothing and the message is processed.
C11_TraceLinkedOrFresh ==
    /\ headers \in {"str_valid", "bytes_valid"} => spanTrace = "remote"
    /\ headers \in {"absent", "str_garbled", "bytes_undecodable"} =>
         /\ spanTrace = "fresh"
         /\ taskExc = "none"
         /\ mstate[cur] = "handling"

\* C12: a message nacked because its handler failed is held by the broker
\* in the queue again, for redelivery.
C12_NackedRequeued ==
    \A m \in Msgs :
        mstate[m] = "Nacked" => \E k \in 1..Len(queue) : queue[k] = m

\* C13: the broker connection is closed before the tracer and meter
\* providers are shut down, on every shutdown path.
C13_ConnectionClosedBeforeFlush ==
    (lpc \in {"flush", "stopped"} \/ flushed) => connection # "open"

\* C14: the shutdown part of lifespan always gets to the shutdown of the
\* providers: it never ends without it, whatever the consumer task's state.
C14_ShutdownReachesFlush == lpc # "crashed"

\* C15: once the cancelled task has finished, every message delivered to the
\* consumer is acknowledged, negatively acknowledged or back in the queue.
C15_NoLimboAfterCancel ==
    cpc = "cancelled" =>
        /\ Unacked = {}
        /\ buffer = <<>>
        /\ \A m \in Msgs :
             delivered[m] > 0 =>
               \/ mstate[m] \in {"Acked", "Nacked"}
               \/ mstate[m] = "queued" /\ \E k \in 1..Len(queue) : queue[k] = m

C15_Witness ==
    /\ cpc = "cancelled"
    /\ \E m, n \in Msgs :
         /\ mstate[m] = "Nacked"
         /\ delivered[n] > 0 /\ mstate[n] = "queued"

\* C16, as stated: when process_delivery_fn raises inside the consumer span,
\* the span is marked errored and the exception recorded before the span
\* ends, the span ends before the disposition, and the message is nacked.
C16_RaisedSpanErrored ==
    RaisedInSpan =>
        /\ Has("record_exception") /\ Has("set_status_error")
        /\ Pos("record_exception") < Pos("span_end")
        /\ Pos("set_status_error") < Pos("span_end")
        /\ Pos("span_end") < Pos("reject")
        /\ mstate[cur] = "Nacked"

\* C16, amended: when process_delivery_fn raises inside the consumer span,
\* the span has ended before the disposition, the exception goes on and the
\* message is nacked, and no span is open once its message has a
\* disposition; the span is marked errored and the exception recorded, before
\* the span ends, for every Exception, and for a CancelledError when it is
\* marked at all.
C16_SpanClosedBeforeDisposition ==
    /\ RaisedInSpan =>
         /\ Has("span_end") /\ Has("reject") /\ ~Has("ack")
         /\ Pos("span_end") < Pos("reject")
         /\ mstate[cur] = "Nacked"
         /\ Has("record_exception") =>
              /\ Pos("record_exception") < Pos("span_end")
              /\ Has("set_status_error")
              /\ Pos("set_status_error") < Pos("span_end")
    /\ (Has("span_start") /\ (Has("ack") \/ Has("reject"))) =>
         /\ Pos("span_start") < Pos("span_end")
         /\ Pos("span_end") < Pos("ack") + Pos("reject")
         /\ spanTrace = "none"
    /\ \A e \in NotifyOutcomes \ {"ok"}, recordsBase \in BOOLEAN :
         SpanExit(e, recordsBase) =
           <<"record_exception", "set_status_error", "span_end">>

C16_Witness ==
    /\ RaisedInSpan
    /\ cpc = "cancelled"
    /\ Has("record_exception")
    /\ Pos("span_end") < Pos("reject")

\* C17: for a body that is no JSON a consumer span exists and is marked
\* errored.
C17_BadBodySpanErrored ==
    (cur \in Msgs /\ body[cur] = "not_json" /\ outcome[cur] = "raised") =>
        (Has("span_start") /\ Has("set_status_error"))

\* C18: while a message is in its pickup delay, the other work of the event
\* loop can take steps: the GET handlers, and the shutdown that cancels the
\* consumer task.
C18_PickupCooperative ==
    (cpc = "pickup" /\ lpc = "serving") =>
        (ENABLED ListDeliveries /\ ENABLED Shutdown)

\* C19: at most one message is inside _handle_message, and the next is
\* handed to it only after the last has its ack or nack, however many are
\* prefetched.
C19_OneAtATime ==
    /\ Cardinality({m \in Msgs : mstate[m] = "handling"}) <= 1
    /\ \A m \in Msgs :
         /\ mstate[m] = "handling" => (m = cur /\ cpc \in {"pickup", "notify"})
         /\ (handled[m] > 0 /\ m # cur) => mstate[m] \in {"Acked", "Nacked"}
    /\ cpc \in {"pickup", "notify"} => mstate[cur] = "handling"

C19_Witness ==
    /\ cpc = "notify"
    /\ Len(buffer) >= 2
    /\ \E m \in Msgs : m # cur /\ mstate[m] = "Acked"

\* C20: every Delivery in the store has status in_transit, an integer
\* estimated_minutes from 10 to 40 and a driver of the roster.
C20_DeliveryFields ==
    \A i \in Ids :
        assigned[i] # NoAssigned =>
            /\ assigned[i].status = "in_transit"
            /\ assigned[i].estimated_minutes \in Int
            /\ assigned[i].estimated_minutes >= 10
            /\ assigned[i].estimated_minutes <= 40
            /\ assigned[i].driver \in {"Alice", "Bob", "Carlos", "Diana", "Eve"}

C20_Witness ==
    \E i, j \in Ids :
        /\ assigned[i].estimated_minutes = 10 /\ assigned[i].driver = "Alice"
        /\ assigned[j].estimated_minutes = 40 /\ assigned[j].driver = "Eve"

\* C21: run with --count N, N >= 1, the main loop of the simulator ends
\* after exactly N calls of post_order, failed calls counted like the others,
\* and without a sleep after the last call: unless it is interrupted, it goes
\* on to the next call while fewer than N were made and then ends.  With
\* --count 0 the loop never ends by itself.
C21_CountTerminates ==
    /\ [](count >= 1 =>
            /\ posts = sent /\ sent <= count /\ failed <= posts
            /\ spc \in {"post", "sleep"} => sent < count
            /\ spc = "done" => (posts = count /\ naps = count - 1)
            /\ spc # "done" => naps <= sent
            /\ spc = "check" => naps = sent - 1)
    /\ [](count = 0 => spc # "done")
    /\ [](count >= 1 => <>(spc \in {"done", "stopped"}))

C21_Witness ==
    /\ spc = "done"
    /\ count = MaxCount
    /\ posts = MaxCount
    /\ failed >= 2 /\ failed < posts

====
